---- MODULE Spec2Model ----
(***************************************************************************)
(* Model of the local image cache of fal-local: the ImageStorage service   *)
(* (download, convert to a data URL, persist in localStorage under a size  *)
(* budget, evict) as it is driven by overlapping downloadAndStoreImage     *)
(* calls on the single-threaded browser event loop.                        *)
(***************************************************************************)
EXTENDS Integers, Sequences, FiniteSets, TLC

VARIABLES
    inputs,    \* the URL strings callers pass to downloadAndStoreImage
    ls,        \* localStorage item 'fal_local_images': [kind, map]
    now,       \* wall clock, milliseconds
    call,      \* per call slot: position and locals of downloadAndStoreImage
    last,      \* how the most recent call to settle ended
    inBatch,   \* TRUE while the invoking synchronous block is still running
    ninv,      \* number of downloadAndStoreImage invocations so far
    nenv,      \* number of clock advances and clearAllImages calls so far
    gens,      \* localStorage item 'fal_local_generations': [kind, list]
    op,        \* the last operation run from outside a download, and its result
    proc       \* the localization of a generation record that awaits its downloads

vars == <<inputs, ls, now, call, last, inBatch, ninv, nenv, gens, op, proc>>

-----------------------------------------------------------------------------
(* Bounds of the model *)

\* downloadAndStoreImage invocations in a run; the n-th one is call n
MaxInv == 2
\* clock advances and clearAllImages calls in a run
MaxEnv == 1
\* operations on the generations list in a run
MaxRuns == 2

Calls == 1..MaxInv

-----------------------------------------------------------------------------
(* Program constants *)

MiB == 1024 * 1024
DayMs == 24 * 60 * 60 * 1000

STORAGE_KEY == "fal_local_images"
MAX_STORAGE_SIZE == 50 * 1024 * 1024

\* The clock advance the environment makes between tasks.
TickStep == 4 * DayMs

\* Inputs: two remote URLs, and an input that is already a data URL.
RemoteUrls == {"https://a", "http://b"}
LocalUrls == {"data:image/png;base64,QQ=="}

\* Remote payloads (named byte contents) and their byte lengths (blob.size).
Payloads == {"A", "B"}
PayloadSize(p) == IF p = "A" THEN 30 * MiB ELSE 10 * MiB
Blobs == {[payload |-> "A", type |-> "image/jpeg"], [payload |-> "B", type |-> ""]}

-----------------------------------------------------------------------------
(* Strings, dates and encodings *)

startsWith(s, p) == Len(s) >= Len(p) /\ SubSeq(s, 1, Len(p)) = p

isRemoteUrl(url) == startsWith(url, "http://") \/ startsWith(url, "https://")

\* new Date().toISOString() and new Date(s).getTime()
toISOString(ms) == [iso |-> ms]
getTime(s) == s.iso
IsoLen == Len("2026-01-01T00:00:00.000Z")

\* Base64 text of a payload, and its length for a payload of n bytes.
Base64(p) == IF p = "A" THEN "QUFB" ELSE "QkJC"
Base64Len(n) == 4 * ((n + 2) \div 3)

\* FileReader.readAsDataURL(blob)
DataUrlPrefix(type) ==
    "data:" \o (IF type = "" THEN "application/octet-stream" ELSE type) \o ";base64,"
readAsDataURL(blob) == DataUrlPrefix(blob.type) \o Base64(blob.payload)

RECURSIVE Digits(_)
Digits(n) == IF n < 10 THEN 1 ELSE 1 + Digits(n \div 10)

-----------------------------------------------------------------------------
(* Record<string, LocalImageData>: a JS object, i.e. a map whose entries   *)
(* keep insertion order.  Modelled as a sequence of [key, val] pairs.      *)

EmptyMap == << >>

NoImage == [originalUrl |-> "", localDataUrl |-> "", contentType |-> "",
            size |-> 0, downloadedAt |-> toISOString(0)]
NoBlob == [payload |-> "", type |-> ""]

Keys(m) == {m[i].key : i \in 1..Len(m)}
Has(m, k) == \E i \in 1..Len(m) : m[i].key = k
Get(m, k) == m[CHOOSE i \in 1..Len(m) : m[i].key = k].val

PutAppends(m, k, v) == Append(m, [key |-> k, val |-> v])
\* m[k] = v : replaces in place, or appends a new key
Put(m, k, v) ==
    IF Has(m, k)
    THEN [i \in 1..Len(m) |-> IF m[i].key = k THEN [key |-> k, val |-> v] ELSE m[i]]
    ELSE Append(m, [key |-> k, val |-> v])

\* delete m[k]
RECURSIVE Delete(_, _)
Delete(m, k) ==
    IF m = << >> THEN << >>
    ELSE IF Head(m).key = k THEN Delete(Tail(m), k)
    ELSE <<Head(m)>> \o Delete(Tail(m), k)

RECURSIVE SumSizes(_)
SumSizes(m) == IF m = << >> THEN 0 ELSE Head(m).val.size + SumSizes(Tail(m))

-----------------------------------------------------------------------------
(* localStorage item *)

NoItem == [kind |-> "none", map |-> EmptyMap]
\* a value under the key that JSON.parse rejects
GarbageItem == [kind |-> "garbage", map |-> EmptyMap]
JsonItem(m) == [kind |-> "json", map |-> m]

\* Byte length of one "key":{...} member of the serialized map.
\* "K":{"originalUrl":"U","localDataUrl":"D","contentType":"T","size":N,
\* "downloadedAt":"I"} : 82 bytes of punctuation and field names, then the values;
\* the data URL carries the whole base64 text of the payload.
EntryJsonLen(e) ==
    82 + Len(e.key) + Len(e.val.originalUrl)
       + (Len(e.val.localDataUrl) - Len(Base64("A")) + Base64Len(e.val.size))
       + Len(e.val.contentType) + Digits(e.val.size) + IsoLen

RECURSIVE MembersLen(_)
MembersLen(m) == IF m = << >> THEN 0 ELSE EntryJsonLen(Head(m)) + MembersLen(Tail(m))

\* Byte length of JSON.stringify(map)
JsonLen(m) == 2 + MembersLen(m) + (IF Len(m) > 1 THEN Len(m) - 1 ELSE 0)

\* An unparseable value still occupies bytes.
GarbageText == "{broken"

getStoredImages(item) == IF item.kind = "json" THEN item.map ELSE EmptyMap

getStoredImageMisses(item, originalUrl) == NoImage
\* storedImages[originalUrl] || null
getStoredImage(item, originalUrl) ==
    IF Has(getStoredImages(item), originalUrl)
    THEN Get(getStoredImages(item), originalUrl)
    ELSE NoImage

getCurrentStorageSize(item) == SumSizes(getStoredImages(item))

getActualStorageSizeParsed(item) ==
    IF item.kind = "json" THEN JsonLen(item.map) ELSE 0
\* stored ? new Blob([stored]).size : 0
getActualStorageSize(item) ==
    CASE item.kind = "none" -> 0
      [] item.kind = "json" -> JsonLen(item.map)
      [] OTHER -> Len(GarbageText)

\* What the medium can answer to the write of an eviction step.  The medium
\* rejects a write for lack of space; eviction only deletes entries, so the text
\* it writes is shorter than the text it read, and the write is taken.
EvictWrites == {"ok"}

setItemKeepsFailedWrite(item, m, w) == JsonItem(m)
setItemWritesOnError(item, m, w) == IF w = "quota" THEN item ELSE JsonItem(m)
\* localStorage.setItem(key, JSON.stringify(m)) with the outcome w the medium gives
setItem(item, m, w) == IF w = "ok" THEN JsonItem(m) ELSE item

clearAllImagesKeepsItem(item) == item
\* localStorage.removeItem(STORAGE_KEY)
clearAllImages(item) == NoItem

-----------------------------------------------------------------------------
(* Eviction *)

RECURSIVE DropOldInclusive(_, _, _)
DropOldInclusive(m, maxAge, t) ==
    IF m = << >> THEN << >>
    ELSE IF t - getTime(Head(m).val.downloadedAt) >= maxAge
         THEN DropOldInclusive(Tail(m), maxAge, t)
         ELSE <<Head(m)>> \o DropOldInclusive(Tail(m), maxAge, t)

\* cleanupOldImages(maxAge) at time t; w is the outcome of its setItem
RECURSIVE DropOld(_, _, _)
DropOld(m, maxAge, t) ==
    IF m = << >> THEN << >>
    ELSE IF t - getTime(Head(m).val.downloadedAt) > maxAge
         THEN DropOld(Tail(m), maxAge, t)
         ELSE <<Head(m)>> \o DropOld(Tail(m), maxAge, t)

cleanupOldImages(item, maxAge, t, w) ==
    LET storedImages == getStoredImages(item)
        kept == DropOld(storedImages, maxAge, t)
        hasChanges == Len(kept) < Len(storedImages)
    IN  IF hasChanges THEN setItem(item, kept, w) ELSE item

EvictCompareSmallestFirst(a, b) == a.val.size - b.val.size
\* The comparator of freeUpSpace's sort: negative when a goes before b.
EvictCompare(a, b) ==
    LET sizeDiff == b.val.size - a.val.size
    IN  IF sizeDiff # 0 THEN sizeDiff
        ELSE getTime(a.val.downloadedAt) - getTime(b.val.downloadedAt)

\* Array.prototype.sort is stable: x goes behind every element not after it.
RECURSIVE InsertSorted(_, _)
InsertSorted(x, s) ==
    IF s = << >> THEN <<x>>
    ELSE IF EvictCompare(Head(s), x) <= 0
         THEN <<Head(s)>> \o InsertSorted(x, Tail(s))
         ELSE <<x>> \o s

SortEntriesInsertionOrder(m) == m
RECURSIVE SortEntries(_)
SortEntries(m) ==
    IF m = << >> THEN << >>
    ELSE InsertSorted(m[Len(m)], SortEntries(SubSeq(m, 1, Len(m) - 1)))

\* The eviction loop: delete in sorted order until freedBytes >= targetBytes.
RECURSIVE EvictLoop(_, _, _, _)
EvictLoop(imageEntries, storedImages, freedBytes, targetBytes) ==
    IF imageEntries = << >> \/ freedBytes >= targetBytes THEN storedImages
    ELSE EvictLoop(Tail(imageEntries),
                   Delete(storedImages, Head(imageEntries).key),
                   freedBytes + Head(imageEntries).val.size,
                   targetBytes)

freeUpSpace(item, targetBytes, w) ==
    LET storedImages == getStoredImages(item)
        left == EvictLoop(SortEntries(storedImages), storedImages, 0, targetBytes)
        hasChanges == Len(left) < Len(storedImages)
    IN  IF hasChanges THEN setItem(item, left, w) ELSE item

OverThresholdAnyUsage(item) == TRUE
\* actualSize > maxSize * 0.8
OverThreshold(item) == getActualStorageSize(item) * 10 > MAX_STORAGE_SIZE * 8

targetReductionNone(item) == 0
targetReductionToZero(item) == getActualStorageSize(item)
\* finalSize - (maxSize * 0.6)
targetReduction(item) == getActualStorageSize(item) - (MAX_STORAGE_SIZE * 6) \div 10

targetFreeSpaceTwice(imageData) == imageData.size * 2
\* Math.max(imageData.size * 2, 10 * 1024 * 1024)
targetFreeSpace(imageData) ==
    IF imageData.size * 2 > 10 * MiB THEN imageData.size * 2 ELSE 10 * MiB

performMaintenanceCleanupNoRemeasure(item, t, w) ==
    IF ~OverThreshold(item) THEN item
    ELSE LET s1 == cleanupOldImages(item, 7 * DayMs, t, w)
             s2 == cleanupOldImages(s1, 3 * DayMs, t, w)
         IN  IF OverThreshold(s2) THEN freeUpSpace(s2, targetReduction(s2), w) ELSE s2
\* performMaintenanceCleanup run to its end at time t, w the outcome of its writes
performMaintenanceCleanup(item, t, w) ==
    IF ~OverThreshold(item) THEN item
    ELSE LET s1 == cleanupOldImages(item, 7 * DayMs, t, w)
             s2 == IF OverThreshold(s1) THEN cleanupOldImages(s1, 3 * DayMs, t, w) ELSE s1
         IN  IF OverThreshold(s2) THEN freeUpSpace(s2, targetReduction(s2), w) ELSE s2

-----------------------------------------------------------------------------
(* getStorageStats *)

Null == [null |-> TRUE]

\* num * scale / den rounded to the nearest integer, as toFixed rounds; the
\* quotient is split off first so that no product leaves 32 bits.
toFixed(num, scale, den) ==
    (num \div den) * scale + (2 * (num % den) * scale + den) \div (2 * den)
\* (bytes / (1024 * 1024)).toFixed(2), in hundredths of a MB
toMB(bytes) == toFixed(bytes, 100, MiB)
\* ((bytes / MAX_STORAGE_SIZE) * 100).toFixed(1), in tenths of a percent:
\* bytes * 1000 / MAX_STORAGE_SIZE = bytes * 5 / (MAX_STORAGE_SIZE / 200)
toPercent(bytes) == toFixed(bytes, 5, MAX_STORAGE_SIZE \div 200)

\* images.sort by downloadedAt ascending: sorted[0] and sorted[length - 1]
Oldest(images) ==
    LET i == CHOOSE i \in 1..Len(images) :
                 /\ \A j \in 1..Len(images) :
                        getTime(images[i].val.downloadedAt) <= getTime(images[j].val.downloadedAt)
                 /\ \A j \in 1..(i - 1) :
                        getTime(images[j].val.downloadedAt) # getTime(images[i].val.downloadedAt)
    IN  images[i].val.downloadedAt
Newest(images) ==
    LET i == CHOOSE i \in 1..Len(images) :
                 /\ \A j \in 1..Len(images) :
                        getTime(images[j].val.downloadedAt) <= getTime(images[i].val.downloadedAt)
                 /\ \A j \in (i + 1)..Len(images) :
                        getTime(images[j].val.downloadedAt) # getTime(images[i].val.downloadedAt)
    IN  images[i].val.downloadedAt

getStorageStatsNoGuard(item) ==
    [imageCount |-> Len(getStoredImages(item)),
     totalSize |-> SumSizes(getStoredImages(item)),
     totalSizeMB |-> toMB(SumSizes(getStoredImages(item))),
     actualStorageSize |-> getActualStorageSize(item),
     actualStorageSizeMB |-> toMB(getActualStorageSize(item)),
     storageUsagePercent |-> toPercent(getActualStorageSize(item)),
     oldestImage |-> toISOString(0),
     newestImage |-> toISOString(0)]
\* the record getStorageStats returns; the MB fields in hundredths, the percent
\* in tenths
getStorageStats(item) ==
    LET images == getStoredImages(item)
        totalSize == SumSizes(images)
        actualStorageSize == getActualStorageSize(item)
    IN  [imageCount |-> Len(images),
         totalSize |-> totalSize,
         totalSizeMB |-> toMB(totalSize),
         actualStorageSize |-> actualStorageSize,
         actualStorageSizeMB |-> toMB(actualStorageSize),
         storageUsagePercent |-> toPercent(actualStorageSize),
         oldestImage |-> IF Len(images) > 0 THEN Oldest(images) ELSE Null,
         newestImage |-> IF Len(images) > 0 THEN Newest(images) ELSE Null]

StatsItemSorted(item) == JsonItem(SortEntries(getStoredImages(item)))
\* getStorageStats calls neither setItem nor removeItem: the item after the call
StatsItem(item) == item

-----------------------------------------------------------------------------
(* downloadAndStoreImage: what each return statement returns *)

\* How an async function ends: it returns a value or throws.
Returned(v) == [kind |-> "return", value |-> v]
Thrown == [kind |-> "throw", value |-> ""]

HitReturnsRemoteUrl(existingImage) == Returned(existingImage.originalUrl)
\* cache hit: return existingImage.localDataUrl
HitReturn(existingImage) == Returned(existingImage.localDataUrl)

HitItemTouches(item, imageUrl, t) ==
    JsonItem(Put(getStoredImages(item), imageUrl,
                 [getStoredImage(item, imageUrl) EXCEPT !.downloadedAt = toISOString(t)]))
\* a cache hit returns before any write: the item stays as it was read
HitItem(item, imageUrl, t) == item

\* stored: return imageData.localDataUrl
StoredReturn(imageData) == Returned(imageData.localDataUrl)

NotStoredReturnsRemoteUrl(imageData) == Returned(imageData.originalUrl)
\* storage failed, the data is still in memory: return imageData.localDataUrl
NotStoredReturn(imageData) == Returned(imageData.localDataUrl)

DownloadFailedThrows(imageUrl) == Thrown
\* downloadImageAsDataUrl gave null: return imageUrl
DownloadFailedReturn(imageUrl) == Returned(imageUrl)

Uncaught(imageUrl) == Thrown
\* the outer catch: return imageUrl
CaughtReturn(imageUrl) == Returned(imageUrl)

StoreWriteDropsOthers(storedImages, imageData) ==
    Put(EmptyMap, imageData.originalUrl, imageData)
StoreWriteAppends(storedImages, imageData) ==
    Append(storedImages, [key |-> imageData.originalUrl, val |-> imageData])
\* the write of storeImage: storedImages[imageData.originalUrl] = imageData
StoreWrite(storedImages, imageData) == Put(storedImages, imageData.originalUrl, imageData)

ExceedsLimitNever(currentSize, size) == FALSE
\* currentSize + size > MAX_STORAGE_SIZE
ExceedsLimit(currentSize, size) == currentSize + size > MAX_STORAGE_SIZE

\* the LocalImageData that reader.onload builds at time t
NewImageData(imageUrl, blob, t) ==
    [originalUrl |-> imageUrl,
     localDataUrl |-> readAsDataURL(blob),
     contentType |-> IF blob.type = "" THEN "image/png" ELSE blob.type,
     size |-> PayloadSize(blob.payload),
     downloadedAt |-> toISOString(t)]

-----------------------------------------------------------------------------
(* Calls and the event loop *)

\* The locals of a call; a call that has settled keeps none.
IdleCall == [pc |-> "idle", url |-> "", blob |-> NoBlob, currentSize |-> 0,
             img |-> NoImage, attempts |-> 0, fetches |-> 0, raced |-> FALSE]
DoneCall(k) == [IdleCall EXCEPT !.pc = IF k.kind = "return" THEN "done" ELSE "threw"]

\* Positions whose continuation is a queued microtask (an await on a promise
\* that is already settled); they run before any task is taken.
MaintPcs == {"m1", "m2", "m3"}
StorePcs == {"store0", "store1", "store2", "store3"}
MicroPcs == MaintPcs \cup StorePcs \cup {"mdone", "sizecheck"}
\* Positions that wait for a task: network, body read, FileReader.
TaskPcs == {"fetching", "blob", "reading"}

InFlight(c) == call[c].pc \in MicroPcs \cup TaskPcs
NoMicro == \A c \in Calls : call[c].pc \notin MicroPcs

Images == getStoredImages(ls)

\* the record of a settled call: where it returned from (how), what it returned,
\* what storeImage reported after how many attempts, how many calls had begun
\* (ninv), and for a successful write whether it replaced an entry (overwrote)
\* and whether it came right after the first-attempt write of an overlapping
\* call for the same or for another URL (pair).
NoLast == [c |-> 0, url |-> "", how |-> "none", result |-> "", stored |-> "none",
           attempts |-> 0, fetches |-> 0, ninv |-> 0, overwrote |-> FALSE,
           pair |-> "none"]

Settled(c, r, how, k, stored, n, inv) ==
    [NoLast EXCEPT !.c = c, !.url = r.url, !.how = how, !.result = k.value,
                   !.stored = stored, !.attempts = n, !.fetches = r.fetches,
                   !.ninv = inv]

\* Call c writes right after an overlapping call wrote, both at the first
\* attempt, no further call having begun in between.
PairOf(c, n) ==
    IF /\ n = 1 /\ last.c # 0 /\ last.c # c
       /\ last.stored = "true" /\ last.attempts = 1
       /\ c <= last.ninv /\ ninv = last.ninv
    THEN IF last.url = call[c].url THEN "same" ELSE "other"
    ELSE "none"

\* No generations item, and no operation run yet.
NoGens == [kind |-> "none", list |-> << >>]
NoOp == [name |-> "none"]
NoProc == [name |-> "none"]

TypeOK ==
    /\ ls.kind \in {"none", "json", "garbage"}
    /\ now \in Nat
    /\ \A c \in Calls : call[c].pc \in {"idle", "done", "threw"} \cup MicroPcs \cup TaskPcs
    /\ last.c \in 0..MaxInv
    /\ inBatch \in BOOLEAN
    /\ ninv \in 0..MaxInv
    /\ nenv \in 0..MaxEnv

Init ==
    /\ inputs = RemoteUrls
    /\ ls = NoItem
    /\ now = 0
    /\ call = [c \in Calls |-> IdleCall]
    /\ last = NoLast
    /\ inBatch = FALSE
    /\ ninv = 0
    /\ nenv = 0
    /\ gens = NoGens
    /\ op = NoOp
    /\ proc = NoProc

SettleHangs(c, how, k, stored, n) == UNCHANGED <<call, last>>
\* Call c settles with completion k.
Settle(c, how, k, stored, n) ==
    /\ call' = [call EXCEPT ![c] = DoneCall(k)]
    /\ last' = Settled(c, call[c], how, k, stored, n, ninv)

\* downloadAndStoreImage(imageUrl) is called: the synchronous part up to the
\* first await (the cache lookup and, on a miss, the start of maintenance).
Invoke(imageUrl) ==
    /\ ninv < MaxInv
    /\ NoMicro \/ inBatch
    /\ LET c == ninv + 1
           existingImage == getStoredImage(ls, imageUrl)
           fresh == [IdleCall EXCEPT !.url = imageUrl]
       IN  IF existingImage # NoImage
           THEN /\ call' = [call EXCEPT ![c] = DoneCall(HitReturn(existingImage))]
                /\ last' = Settled(c, fresh, "hit", HitReturn(existingImage),
                                   "none", 0, c)
                /\ ls' = HitItem(ls, imageUrl, now)
           ELSE IF OverThreshold(ls)
           THEN /\ call' = [call EXCEPT ![c] = [fresh EXCEPT !.pc = "m1"]]
                /\ \E w \in EvictWrites :
                       ls' = cleanupOldImages(ls, 7 * DayMs, now, w)
                /\ last' = last
           ELSE /\ call' = [call EXCEPT ![c] = [fresh EXCEPT !.pc = "mdone"]]
                /\ ls' = ls
                /\ last' = last
    /\ inBatch' = TRUE
    /\ ninv' = ninv + 1
    /\ UNCHANGED <<inputs, now, nenv, gens, op, proc>>

\* performMaintenanceCleanup resumes after an awaited eviction step.
Maintain(c) ==
    /\ call[c].pc \in MaintPcs
    /\ CASE call[c].pc = "m1" ->
              IF OverThreshold(ls)
              THEN /\ \E w \in EvictWrites :
                          ls' = cleanupOldImages(ls, 3 * DayMs, now, w)
                   /\ call' = [call EXCEPT ![c].pc = "m2"]
              ELSE /\ ls' = ls
                   /\ call' = [call EXCEPT ![c].pc = "mdone"]
         [] call[c].pc = "m2" ->
              IF OverThreshold(ls)
              THEN /\ \E w \in EvictWrites :
                          ls' = freeUpSpace(ls, targetReduction(ls), w)
                   /\ call' = [call EXCEPT ![c].pc = "m3"]
              ELSE /\ ls' = ls
                   /\ call' = [call EXCEPT ![c].pc = "mdone"]
         [] OTHER ->
              /\ ls' = ls
              /\ call' = [call EXCEPT ![c].pc = "mdone"]
    /\ inBatch' = FALSE
    /\ UNCHANGED <<inputs, now, last, ninv, nenv, gens, op, proc>>

\* Maintenance is over: downloadImageAsDataUrl starts and issues the fetch.
IssueFetch(c) ==
    /\ call[c].pc = "mdone"
    /\ call' = [call EXCEPT ![c].pc = "fetching", ![c].fetches = @ + 1]
    /\ inBatch' = FALSE
    /\ UNCHANGED <<inputs, ls, now, last, ninv, nenv, gens, op, proc>>

\* The fetch settles: rejected, a response that is not ok, or an ok response.
FetchSettle(c) ==
    /\ call[c].pc = "fetching"
    /\ NoMicro
    /\ \E r \in {"reject", "notok", "ok"} :
          IF r = "ok"
          THEN call' = [call EXCEPT ![c].pc = "blob"] /\ last' = last
          ELSE Settle(c, "fetch", DownloadFailedReturn(call[c].url), "none", 0)
    /\ inBatch' = FALSE
    /\ UNCHANGED <<inputs, ls, now, ninv, nenv, gens, op, proc>>

\* response.blob() settles; on success the logical size of the store is read.
BlobSettle(c) ==
    /\ call[c].pc = "blob"
    /\ NoMicro
    /\ \/ Settle(c, "blob", DownloadFailedReturn(call[c].url), "none", 0)
       \/ /\ \E b \in Blobs :
                call' = [call EXCEPT ![c].pc = "sizecheck", ![c].blob = b,
                                     ![c].currentSize = getCurrentStorageSize(ls)]
          /\ last' = last
    /\ inBatch' = FALSE
    /\ UNCHANGED <<inputs, ls, now, ninv, nenv, gens, op, proc>>

\* The limit check of downloadImageAsDataUrl, then the FileReader is started.
SizeCheck(c) ==
    /\ call[c].pc = "sizecheck"
    /\ IF ExceedsLimit(call[c].currentSize, PayloadSize(call[c].blob.payload))
       THEN Settle(c, "limit", DownloadFailedReturn(call[c].url), "none", 0)
       ELSE /\ call' = [call EXCEPT ![c].pc = "reading", ![c].currentSize = 0]
            /\ last' = last
    /\ inBatch' = FALSE
    /\ UNCHANGED <<inputs, ls, now, ninv, nenv, gens, op, proc>>

\* FileReader: onload builds the LocalImageData, onerror rejects the promise.
ReaderSettle(c) ==
    /\ call[c].pc = "reading"
    /\ NoMicro
    /\ \/ Settle(c, "reader", CaughtReturn(call[c].url), "none", 0)
       \/ /\ call' = [call EXCEPT ![c].pc = "store0",
                        ![c].img = NewImageData(call[c].url, call[c].blob, now)]
          /\ last' = last
    /\ inBatch' = FALSE
    /\ UNCHANGED <<inputs, ls, now, ninv, nenv, gens, op, proc>>

LadderEvictSizeFirst(item, n, imageData, t, w) ==
    CASE n = 1 -> freeUpSpace(item, targetFreeSpace(imageData), w)
      [] n = 2 -> cleanupOldImages(item, 3 * DayMs, t, w)
      [] OTHER -> cleanupOldImages(item, DayMs, t, w)
\* The eviction step the ladder runs after failed attempt number n.
LadderEvict(item, n, imageData, t, w) ==
    CASE n = 1 -> cleanupOldImages(item, 3 * DayMs, t, w)
      [] n = 2 -> freeUpSpace(item, targetFreeSpace(imageData), w)
      [] OTHER -> cleanupOldImages(item, DayMs, t, w)

\* Whether failed attempt number n, failing with w, is followed by another one.
Retries(n, w) == IF n = 1 THEN w = "quota" ELSE n < 4

\* Calls for the same URL that are still in flight when an entry is written.
NoteRace(f, c) ==
    [d \in Calls |-> IF d # c /\ f[d].pc \in MicroPcs \cup TaskPcs /\ f[d].url = call[c].url
                     THEN [f[d] EXCEPT !.raced = TRUE] ELSE f[d]]

\* storeImage: one read-modify-write attempt; on failure the next eviction step.
StoreAttempt(c) ==
    /\ call[c].pc \in StorePcs
    /\ LET n == call[c].attempts + 1
           imageData == call[c].img
           storedImages == StoreWrite(getStoredImages(ls), imageData)
       IN  \E w \in {"ok", "quota", "error"} :
             /\ n > 1 => w # "error"
             /\ IF w = "ok"
                THEN /\ ls' = setItem(ls, storedImages, w)
                     /\ call' = NoteRace([call EXCEPT ![c] = DoneCall(StoredReturn(imageData))], c)
                     /\ last' = [Settled(c, call[c], "stored", StoredReturn(imageData),
                                         "true", n, ninv)
                                 EXCEPT !.overwrote = Has(getStoredImages(ls), imageData.originalUrl),
                                        !.pair = PairOf(c, n)]
                ELSE IF Retries(n, w)
                THEN /\ \E w2 \in EvictWrites :
                           ls' = LadderEvict(setItem(ls, storedImages, w), n,
                                             imageData, now, w2)
                     /\ call' = [call EXCEPT ![c].attempts = n,
                                   ![c].pc = CASE n = 1 -> "store1"
                                               [] n = 2 -> "store2"
                                               [] OTHER -> "store3"]
                     /\ last' = last
                ELSE /\ ls' = setItem(ls, storedImages, w)
                     /\ Settle(c, "notstored", NotStoredReturn(imageData), "false", n)
    /\ inBatch' = FALSE
    /\ UNCHANGED <<inputs, now, ninv, nenv, gens, op, proc>>

\* clearAllImages, from the UI
ClearAll ==
    /\ NoMicro
    /\ nenv < MaxEnv
    /\ ls' = clearAllImages(ls)
    /\ last' = NoLast
    /\ op' = [name |-> "clearAllImages", keys |-> Keys(Images)]
    /\ nenv' = nenv + 1
    /\ inBatch' = FALSE
    /\ UNCHANGED <<inputs, now, call, ninv, gens, proc>>

\* Time passes between tasks.
Tick ==
    /\ NoMicro
    /\ nenv < MaxEnv
    /\ now' = now + TickStep
    /\ nenv' = nenv + 1
    /\ inBatch' = FALSE
    /\ UNCHANGED <<inputs, ls, call, last, ninv, gens, op, proc>>

Next ==
    \/ \E u \in inputs : Invoke(u)
    \/ \E c \in Calls : Maintain(c)
    \/ \E c \in Calls : IssueFetch(c)
    \/ \E c \in Calls : FetchSettle(c)
    \/ \E c \in Calls : BlobSettle(c)
    \/ \E c \in Calls : SizeCheck(c)
    \/ \E c \in Calls : ReaderSettle(c)
    \/ \E c \in Calls : StoreAttempt(c)
    \/ ClearAll
    \/ Tick

Spec == Init /\ [][Next]_vars

\* The event loop runs every queued microtask: a continuation that follows an
\* await on a settled promise (maintenance, the start of the fetch, the limit
\* check, the attempts of storeImage) is eventually run.  Nothing makes the
\* network, the body read or the FileReader settle.
MicrotasksRun ==
    \A c \in Calls :
        /\ WF_vars(Maintain(c))
        /\ WF_vars(IssueFetch(c))
        /\ WF_vars(SizeCheck(c))
        /\ WF_vars(StoreAttempt(c))

SpecFair == Init /\ [][Next]_vars /\ MicrotasksRun

\* The same program when callers also pass inputs that are not remote URLs
\* (handleGenerate passes every image.url it receives).
InitAnyInput ==
    /\ inputs = RemoteUrls \cup LocalUrls
    /\ ls = NoItem
    /\ now = 0
    /\ call = [c \in Calls |-> IdleCall]
    /\ last = NoLast
    /\ inBatch = FALSE
    /\ ninv = 0
    /\ nenv = 0
    /\ gens = NoGens
    /\ op = NoOp
    /\ proc = NoProc

SpecAnyInput == InitAnyInput /\ [][Next]_vars

-----------------------------------------------------------------------------
(* The store operations run one at a time on stores of up to three entries *)

OpsUrls == RemoteUrls \cup {"https://c"}
OpsSizes == {3 * MiB, 5 * MiB, 30 * MiB}
OpsTimes == {DayMs, 5 * DayMs}
OpsNows == {6 * DayMs, 9 * DayMs}
OpsTargets == {0 - MiB, 0, 3 * MiB, 5 * MiB, 6 * MiB, 64 * MiB}

OpsEntry(u, size, t) ==
    [key |-> u,
     val |-> [originalUrl |-> u,
              localDataUrl |-> readAsDataURL([payload |-> "A", type |-> "image/jpeg"]),
              contentType |-> "image/jpeg",
              size |-> size,
              downloadedAt |-> toISOString(t)]]
OpsEntries == {OpsEntry(u, size, t) : u \in OpsUrls, size \in OpsSizes, t \in OpsTimes}
\* the entries storeImage is given
OpsNewEntries == {OpsEntry("https://a", 5 * MiB, 5 * DayMs), OpsEntry("https://c", 3 * MiB, DayMs)}

\* Maps of up to three entries with distinct keys, in every insertion order.
OpsMaps ==
    {<< >>} \cup {<<a>> : a \in OpsEntries}
    \cup {m \in {<<a, b>> : a \in OpsEntries, b \in OpsEntries} : m[1].key # m[2].key}
    \cup {m \in {<<a, b, c>> : a \in OpsEntries, b \in OpsEntries, c \in OpsEntries} :
             m[1].key # m[2].key /\ m[1].key # m[3].key /\ m[2].key # m[3].key}

OpsItems == {NoItem, GarbageItem} \cup {JsonItem(m) : m \in OpsMaps}

InitOps ==
    /\ inputs = RemoteUrls
    /\ ls \in OpsItems
    /\ now \in OpsNows
    /\ call = [c \in Calls |-> IdleCall]
    /\ last = NoLast
    /\ inBatch = FALSE
    /\ ninv = 0
    /\ nenv = 0
    /\ gens = NoGens
    /\ op = NoOp
    /\ proc = NoProc

\* What an operation leaves in op: its name, the operation before it, its
\* argument and what it returned.
Ran(name, arg, result) == [name |-> name, after |-> op.name, arg |-> arg, result |-> result]

OpsFrame == UNCHANGED <<inputs, now, call, last, inBatch, ninv, nenv, gens, proc>>

StatsOp ==
    /\ ls' = StatsItem(ls)
    /\ op' = Ran("getStorageStats", Null, getStorageStats(ls))
    /\ OpsFrame

LookupOp(originalUrl) ==
    /\ ls' = ls
    /\ op' = Ran("getStoredImage", originalUrl, getStoredImage(ls, originalUrl))
    /\ OpsFrame

MaintenanceOp ==
    /\ \E w \in EvictWrites : ls' = performMaintenanceCleanup(ls, now, w)
    /\ op' = Ran("performMaintenanceCleanup", OverThreshold(ls), Null)
    /\ OpsFrame

FreeUpOp(targetBytes) ==
    /\ \E w \in EvictWrites : ls' = freeUpSpace(ls, targetBytes, w)
    /\ op' = Ran("freeUpSpace", targetBytes,
                 [freedBytes |-> SumSizes(Images) - SumSizes(getStoredImages(ls')),
                  removed |-> Len(Images) - Len(getStoredImages(ls'))])
    /\ OpsFrame

\* storeImage whose first write is taken
StoreOp(e) ==
    /\ ls' = setItem(ls, StoreWrite(getStoredImages(ls), e.val), "ok")
    /\ op' = Ran("storeImage", e.val, TRUE)
    /\ OpsFrame

ClearOp ==
    /\ ls' = clearAllImages(ls)
    /\ op' = Ran("clearAllImages", Null, Null)
    /\ OpsFrame

NextOps ==
    \/ StatsOp
    \/ \E u \in OpsUrls : LookupOp(u)
    \/ MaintenanceOp
    \/ \E t \in OpsTargets : FreeUpOp(t)
    \/ \E e \in OpsNewEntries : StoreOp(e)
    \/ ClearOp

SpecOps == InitOps /\ [][NextOps]_vars

-----------------------------------------------------------------------------
(* storeImage, cleanupOldImages and performMaintenanceCleanup run one at a  *)
(* time, each to its end                                                   *)

\* The outcomes the medium gives to the writes of one storeImage run: the first
\* write is taken, fails for lack of space or fails otherwise; a retry is taken
\* or fails.
LadderOutcomes ==
    {<<"ok">>, <<"error">>, <<"quota", "ok">>, <<"quota", "quota", "ok">>,
     <<"quota", "quota", "quota", "ok">>, <<"quota", "quota", "quota", "quota">>}

\* Stores of up to three entries that are 1, 2 or 5 days old at the sixth day
\* and 4, 5 or 8 days old at the ninth.
LadderSizes == {5 * MiB, 30 * MiB}
LadderTimes == {DayMs, 4 * DayMs, 5 * DayMs}
LadderEntries == {OpsEntry(u, size, t) : u \in OpsUrls, size \in LadderSizes, t \in LadderTimes}
LadderMaps ==
    {<< >>} \cup {<<a>> : a \in LadderEntries}
    \cup {m \in {<<a, b>> : a \in LadderEntries, b \in LadderEntries} : m[1].key # m[2].key}
    \cup {m \in {<<a, b, c>> : a \in LadderEntries, b \in LadderEntries, c \in LadderEntries} :
             /\ m[1].key = "https://a" /\ m[2].key = "http://b" /\ m[3].key = "https://c"}
LadderItems == {NoItem, GarbageItem} \cup {JsonItem(m) : m \in LadderMaps}

\* The entries storeImage is given: 2 * size below and above 10 MiB.
LadderNewEntries ==
    {OpsEntry("https://a", 3 * MiB, 5 * DayMs), OpsEntry("https://c", 30 * MiB, 5 * DayMs)}

InitLadder ==
    /\ inputs = RemoteUrls
    /\ ls \in LadderItems
    /\ now \in OpsNows
    /\ call = [c \in Calls |-> IdleCall]
    /\ last = NoLast
    /\ inBatch = FALSE
    /\ ninv = 0
    /\ nenv = 0
    /\ gens = NoGens
    /\ op = NoOp
    /\ proc = NoProc

\* The ages cleanupOldImages is called with: 1 day, 3 days, and 7 days (also
\* its default).
LadderAges == {DayMs, 3 * DayMs, 7 * DayMs}

\* The call the ladder makes after failed attempt number n.
LadderStep(n, imageData) ==
    CASE n = 1 -> [name |-> "cleanupOldImages", arg |-> 3 * DayMs]
      [] n = 2 -> [name |-> "freeUpSpace", arg |-> targetFreeSpace(imageData)]
      [] OTHER -> [name |-> "cleanupOldImages", arg |-> DayMs]

\* storeImage from attempt number n on, ws[n] being the outcome of that write;
\* steps lists the eviction calls made so far with the item before and after.
RECURSIVE storeImageFrom(_, _, _, _, _, _)
storeImageFrom(item, imageData, t, ws, n, steps) ==
    LET w == ws[n]
        written == setItem(item, StoreWrite(getStoredImages(item), imageData), w)
    IN  IF w = "ok"
        THEN [item |-> written, stored |-> TRUE, attempts |-> n, steps |-> steps]
        ELSE IF Retries(n, w)
        THEN LET evicted == LadderEvict(written, n, imageData, t,
                                        CHOOSE w2 \in EvictWrites : TRUE)
             IN  storeImageFrom(evicted, imageData, t, ws, n + 1,
                     Append(steps, [name |-> LadderStep(n, imageData).name,
                                    arg |-> LadderStep(n, imageData).arg,
                                    before |-> written, after |-> evicted]))
        ELSE [item |-> written, stored |-> FALSE, attempts |-> n, steps |-> steps]

storeImage(item, imageData, t, ws) == storeImageFrom(item, imageData, t, ws, 1, << >>)

\* The eviction calls performMaintenanceCleanup makes, in order, each with its
\* argument and the item before and after it.
performMaintenanceSteps(item, t, w) ==
    IF ~OverThreshold(item) THEN << >>
    ELSE LET s1 == cleanupOldImages(item, 7 * DayMs, t, w)
             first == <<[name |-> "cleanupOldImages", arg |-> 7 * DayMs,
                         before |-> item, after |-> s1]>>
             s2 == IF OverThreshold(s1) THEN cleanupOldImages(s1, 3 * DayMs, t, w) ELSE s1
             second == IF OverThreshold(s1)
                       THEN <<[name |-> "cleanupOldImages", arg |-> 3 * DayMs,
                               before |-> s1, after |-> s2]>>
                       ELSE << >>
             third == IF OverThreshold(s2)
                      THEN <<[name |-> "freeUpSpace", arg |-> targetReduction(s2),
                              before |-> s2,
                              after |-> freeUpSpace(s2, targetReduction(s2), w)]>>
                      ELSE << >>
         IN  first \o second \o third

MaintenanceRunOp ==
    /\ \E w \in EvictWrites :
          /\ ls' = performMaintenanceCleanup(ls, now, w)
          /\ op' = Ran("performMaintenanceCleanup", getActualStorageSize(ls),
                       performMaintenanceSteps(ls, now, w))
    /\ OpsFrame

CleanupOp(maxAge) ==
    /\ \E w \in EvictWrites : ls' = cleanupOldImages(ls, maxAge, now, w)
    /\ op' = Ran("cleanupOldImages", maxAge, Len(Images) - Len(getStoredImages(ls')))
    /\ OpsFrame

StoreRunOp(e, ws) ==
    /\ LET run == storeImage(ls, e.val, now, ws)
       IN  /\ ls' = run.item
           /\ op' = Ran("storeImage", [imageData |-> e.val, ws |-> ws],
                        [stored |-> run.stored, attempts |-> run.attempts,
                         steps |-> run.steps])
    /\ OpsFrame

NextLadder ==
    \/ MaintenanceRunOp
    \/ \E maxAge \in LadderAges : CleanupOp(maxAge)
    \/ \E e \in LadderNewEntries, ws \in LadderOutcomes : StoreRunOp(e, ws)

SpecLadder == InitLadder /\ [][NextLadder]_vars

-----------------------------------------------------------------------------
(* Generation records: LocalGenerations, ImageMigration, handleGenerate *)

\* getFromStorage(key, []) and setToStorage(key, value) with the outcome w of
\* setItem; a failed write is logged and swallowed.
getGenerations(item) == IF item.kind = "json" THEN item.list ELSE << >>
setToStorage(item, value, w) == IF w = "ok" THEN [kind |-> "json", list |-> value] ELSE item

\* generations.findIndex(gen => gen.id === id)
findIndex(generations, id) ==
    IF \E i \in 1..Len(generations) : generations[i].id = id
    THEN CHOOSE i \in 1..Len(generations) :
             /\ generations[i].id = id
             /\ \A j \in 1..(i - 1) : generations[j].id # id
    ELSE -1

\* { ...a, ...b }
Spread(a, b) ==
    [f \in DOMAIN a \cup DOMAIN b |-> IF f \in DOMAIN b THEN b[f] ELSE a[f]]

MergeOldWins(old, updates, t) ==
    Spread(Spread(updates, old), [updated_at |-> toISOString(t)])
\* { ...generations[index], ...updates, updated_at: new Date().toISOString() }
MergeGeneration(old, updates, t) ==
    Spread(Spread(old, updates), [updated_at |-> toISOString(t)])

updateGeneration(item, id, updates, t, w) ==
    LET generations == getGenerations(item)
        index == findIndex(generations, id)
    IN  IF index # -1
        THEN setToStorage(item,
                 [generations EXCEPT ![index] = MergeGeneration(generations[index], updates, t)],
                 w)
        ELSE item

\* generations.unshift(generation)
addGeneration(item, generation, w) ==
    setToStorage(item, <<generation>> \o getGenerations(item), w)

deleteGeneration(item, id, w) ==
    setToStorage(item, SelectSeq(getGenerations(item), LAMBDA gen : gen.id # id), w)

\* An image of a record; originalUrl "" stands for the field being absent.
Image(url) == [url |-> url, originalUrl |-> ""]
\* { ...image, url: localUrl, originalUrl: image.url }
ProcessedImage(image, localUrl) == [image EXCEPT !.url = localUrl, !.originalUrl = image.url]

\* Whether the handler calls downloadAndStoreImage for the image.
MigrationCalls(image) == image.url # "" /\ isRemoteUrl(image.url)
HandleCalls(image) == image.url # ""

\* What downloadAndStoreImage can return for a URL: the URL, or a data URL.
DownloadResults(url) == {url, readAsDataURL([payload |-> "A", type |-> "image/jpeg"])}

\* A record: shape says where its images are, "images" for result.images and
\* "data" for result.data.images.
Generation(id, shape, images) ==
    [id |-> id, model_title |-> "old", shape |-> shape, images |-> images,
     updated_at |-> toISOString(0)]
GenIds == {"g1", "g2"}
GenImages ==
    {<< >>, <<Image("https://a"), Image("data:image/png;base64,QQ=="), Image("")>>}
GenPool == {Generation(id, shape, images) :
               id \in GenIds, shape \in {"images", "data"}, images \in GenImages}
GenLists == {<< >>} \cup {<<g>> : g \in GenPool} \cup {<<g, h>> : g \in GenPool, h \in GenPool}
GenItems == {NoGens, [kind |-> "garbage", list |-> << >>]}
             \cup {[kind |-> "json", list |-> l] : l \in GenLists}
\* the generations a response of the API brings
GenIncoming == {g \in GenPool : g.id = "g2" /\ (g.shape = "images" \/ Len(g.images) > 0)}
GenUpdates == {[model_title |-> "new", updated_at |-> toISOString(DayMs)]}
GenNow == 2 * DayMs

InitGen ==
    /\ inputs = RemoteUrls
    /\ ls = NoItem
    /\ now = GenNow
    /\ call = [c \in Calls |-> IdleCall]
    /\ last = NoLast
    /\ inBatch = FALSE
    /\ ninv = 0
    /\ nenv = 0
    /\ gens \in GenItems
    /\ op = NoOp
    /\ proc = NoProc

\* nenv counts the operations begun
GenFrame == UNCHANGED <<inputs, ls, now, call, last, inBatch, ninv>>

UpdateGenerationOp(id, updates) ==
    /\ nenv < MaxRuns
    /\ nenv' = nenv + 1
    /\ \E w \in {"ok", "quota"} :
          /\ gens' = updateGeneration(gens, id, updates, now, w)
          /\ op' = [name |-> "updateGeneration", id |-> id, updates |-> updates, w |-> w]
    /\ UNCHANGED proc
    /\ GenFrame

\* The values the awaited downloadAndStoreImage calls return, one per image the
\* handler called it for (called[i]), "" for the others.
Returns(images, called) ==
    {r \in [1..Len(images) -> {""} \cup UNION {DownloadResults(images[i].url) : i \in 1..Len(images)}] :
        \A i \in 1..Len(images) :
            IF called[i] THEN r[i] \in DownloadResults(images[i].url) ELSE r[i] = ""}

\* What a localization leaves in op: the record it was given, the record it
\* returns, what the downloads returned and the method it saved with.
Localized(name, generation, out, returned, via) ==
    [name |-> name, generation |-> generation, out |-> out, returned |-> returned,
     via |-> via]

\* ImageMigration.processGeneration of a stored record, up to the await.
ProcessBegin(generation) ==
    /\ proc = NoProc
    /\ nenv < MaxRuns
    /\ nenv' = nenv + 1
    /\ IF generation.shape # "images" \/ Len(generation.images) = 0
       THEN /\ op' = Localized("processGeneration", generation, generation, << >>, "none")
            /\ proc' = proc
       ELSE /\ proc' = [name |-> "processGeneration", generation |-> generation]
            /\ op' = op
    /\ UNCHANGED gens
    /\ GenFrame

\* The downloads have settled: the record is rebuilt and saved.
ProcessFinish ==
    /\ proc.name = "processGeneration"
    /\ LET generation == proc.generation
       IN  \E returned \in Returns(generation.images,
                                    [i \in 1..Len(generation.images) |->
                                        MigrationCalls(generation.images[i])]), w \in {"ok", "quota"} :
             LET processedImages ==
                     [i \in 1..Len(generation.images) |->
                         IF MigrationCalls(generation.images[i])
                         THEN ProcessedImage(generation.images[i], returned[i])
                         ELSE generation.images[i]]
                 updatedGeneration ==
                     [generation EXCEPT !.images = processedImages,
                                        !.updated_at = toISOString(now)]
             IN  /\ gens' = updateGeneration(gens, generation.id, updatedGeneration, now, w)
                 /\ op' = Localized("processGeneration", generation, updatedGeneration,
                                    returned, "updateGeneration")
    /\ proc' = NoProc
    /\ UNCHANGED nenv
    /\ GenFrame

\* handleGenerate from the arrival of a generation of the response to the await.
HandleBegin(generation) ==
    /\ proc = NoProc
    /\ nenv < MaxRuns
    /\ nenv' = nenv + 1
    /\ IF Len(generation.images) = 0
       THEN /\ \E w \in {"ok", "quota"} : gens' = addGeneration(gens, generation, w)
            /\ op' = Localized("handleGenerate", generation, generation, << >>, "addGeneration")
            /\ proc' = proc
       ELSE /\ proc' = [name |-> "handleGenerate", generation |-> generation]
            /\ op' = op
            /\ gens' = gens
    /\ GenFrame

HandleFinish ==
    /\ proc.name = "handleGenerate"
    /\ LET generation == proc.generation
       IN  \E returned \in Returns(generation.images,
                                    [i \in 1..Len(generation.images) |->
                                        HandleCalls(generation.images[i])]), w \in {"ok", "quota"} :
             LET processedImages ==
                     [i \in 1..Len(generation.images) |->
                         IF HandleCalls(generation.images[i])
                         THEN ProcessedImage(generation.images[i], returned[i])
                         ELSE generation.images[i]]
                 updatedGeneration == [generation EXCEPT !.images = processedImages]
             IN  /\ gens' = addGeneration(gens, updatedGeneration, w)
                 /\ op' = Localized("handleGenerate", generation, updatedGeneration,
                                    returned, "addGeneration")
    /\ proc' = NoProc
    /\ UNCHANGED nenv
    /\ GenFrame

NextGen ==
    \/ \E id \in GenIds \cup {"g9"}, updates \in GenUpdates : UpdateGenerationOp(id, updates)
    \/ \E i \in 1..Len(getGenerations(gens)) : ProcessBegin(getGenerations(gens)[i])
    \/ ProcessFinish
    \/ \E generation \in GenIncoming : HandleBegin(generation)
    \/ HandleFinish

SpecGen == InitGen /\ [][NextGen]_vars

-----------------------------------------------------------------------------
(* Properties *)

\* The step in which downloadAndStoreImage(u) is called.
Invoked(u) ==
    /\ ninv' = ninv + 1
    /\ IF call'[ninv'].pc \in {"done", "threw"}
       THEN last'.c = ninv' /\ last'.url = u
       ELSE call'[ninv'].url = u

\* The step in which call c settles.
Settles(c) == InFlight(c) /\ call'[c].pc \in {"done", "threw"}

\* C1: a call for a URL that already has an entry returns that entry's
\* localDataUrl in the calling step itself, having issued no fetch, started no
\* maintenance cleanup and left the persisted item as it was.
C1_CacheHit ==
    [][\A u \in inputs :
          Invoked(u) /\ Has(Images, u) =>
              /\ call'[ninv'].pc = "done"
              /\ last'.how = "hit"
              /\ last'.result = Get(Images, u).localDataUrl
              /\ last'.fetches = 0
              /\ ls' = ls]_vars

C1_Witness == last.how = "hit" /\ last.result = readAsDataURL([payload |-> "A", type |-> "image/jpeg"])

\* C2: a call whose fetch rejects, whose response is not ok, whose body read
\* fails or whose FileReader fails returns its input URL, does not throw, has
\* made no write attempt and leaves the store without a new entry.
C2_FailOpen ==
    [][\A c \in Calls :
          Settles(c) /\ last'.c = c /\ last'.how \in {"fetch", "blob", "reader"} =>
              /\ call'[c].pc = "done"
              /\ last'.result = call[c].url
              /\ last'.attempts = 0
              /\ ls' = ls]_vars

C2_Witness == last.how = "reader" /\ last.result = last.url /\ last.url \in RemoteUrls

C5_Original ==
    [][\A u \in inputs :
          ( /\ Invoked(u) /\ last.c # 0 /\ last.url = u
            /\ \A d \in Calls : ~InFlight(d) ) =>
              /\ last'.how = "hit"
              /\ last'.result = last.result
              /\ last.result # u
              /\ last.fetches + last'.fetches <= 1]_vars

\* C5 amended: the same, provided storeImage reported true to the first call.
C5_Amended ==
    [][\A u \in inputs :
          ( /\ Invoked(u) /\ last.c # 0 /\ last.url = u /\ last.stored = "true"
            /\ \A d \in Calls : ~InFlight(d) ) =>
              /\ call'[ninv'].pc = "done"
              /\ last'.how = "hit"
              /\ last'.result = last.result
              /\ last.result # u
              /\ last.fetches + last'.fetches <= 1]_vars

C5_Witness ==
    /\ ninv = 2 /\ last.c = 2 /\ last.how = "hit" /\ nenv = 0
    /\ Has(Images, last.url) /\ call[1].pc = "done"

\* C6: a call whose input does not start with http:// or https:// issues no
\* fetch, returns its input unchanged, and no entry is ever stored for such an
\* input.
C6_PassThrough ==
    /\ \A c \in Calls : (InFlight(c) /\ ~isRemoteUrl(call[c].url)) => call[c].fetches = 0
    /\ (last.c # 0 /\ ~isRemoteUrl(last.url)) =>
           last.result = last.url /\ last.fetches = 0 /\ last.stored = "none"
    /\ \A k \in Keys(Images) : isRemoteUrl(k)

\* C7: the size fields of the stored entries never sum to more than
\* MAX_STORAGE_SIZE.
C7_Budget == getCurrentStorageSize(ls) <= MAX_STORAGE_SIZE

\* C8: when two overlapping calls for different URLs both succeed in their first
\* write, no other call having begun meanwhile, the store holds both entries
\* once the second has written: the first call's entry as it returned it and the
\* second call's own.
C8_NoLostUpdate ==
    [][\A c \in Calls :
          ( /\ Settles(c) /\ call[c].pc = "store0" /\ last'.stored = "true"
            /\ last.c # 0 /\ last.c # c /\ last.stored = "true" /\ last.attempts = 1
            /\ last.url # call[c].url
            /\ c <= last.ninv /\ ninv = last.ninv ) =>
              /\ Has(getStoredImages(ls'), last.url)
              /\ getStoredImage(ls', last.url).localDataUrl = last.result
              /\ getStoredImage(ls', last.url) = getStoredImage(ls, last.url)
              /\ Has(getStoredImages(ls'), call[c].url)
              /\ getStoredImage(ls', call[c].url) = call[c].img]_vars

C8_Witness == last.pair = "other" /\ Len(Images) >= 2

\* C9 as stated: an entry that stays in the store keeps all its fields.
C9_Original ==
    [][\A u \in Keys(Images) \cap Keys(getStoredImages(ls')) :
          getStoredImage(ls', u) = getStoredImage(ls, u)]_vars

\* C9 amended: an entry that stays in the store keeps all its fields, except
\* that a call for the same URL that was already in flight when the entry was
\* stored replaces it by the entry of its own download when its write succeeds.
C9_Amended ==
    [][\A u \in Keys(Images) \cap Keys(getStoredImages(ls')) :
          getStoredImage(ls', u) # getStoredImage(ls, u) =>
              \E c \in Calls :
                  /\ Settles(c) /\ call[c].pc \in StorePcs /\ call[c].url = u
                  /\ call[c].raced
                  /\ last'.c = c /\ last'.stored = "true"
                  /\ getStoredImage(ls', u) = call[c].img]_vars

C9_Witness == last.overwrote /\ Has(Images, last.url)

\* C10 as stated: of two overlapping calls for the same URL that both missed and
\* fetched the same content, the second to settle returns the payload the first
\* returned, has attempted to persist it, and the store then holds an entry for
\* the URL with that payload.
C10_Original ==
    [][\A c \in Calls :
          ( /\ Settles(c) /\ last.c # 0 /\ last.c # c /\ last.url = call[c].url
            /\ last.how = "stored"
            /\ c <= last.ninv /\ ninv = last.ninv
            /\ call[c].blob # NoBlob /\ readAsDataURL(call[c].blob) = last.result ) =>
              /\ last'.result = last.result
              /\ last'.attempts >= 1
              /\ Has(getStoredImages(ls'), call[c].url)
              /\ getStoredImage(ls', call[c].url).localDataUrl = last.result]_vars

\* C10 amended: two overlapping calls for the same URL that both missed have
\* each issued one fetch; when both pass the limit check and both succeed in
\* their first write, the store then holds exactly one entry for the URL, the
\* one written last, whose data URL is what the second call returns and, the
\* fetched content being the same, what the first returned.
C10_Amended ==
    [][\A c \in Calls :
          ( /\ Settles(c) /\ call[c].pc = "store0" /\ last'.stored = "true"
            /\ last.c # 0 /\ last.c # c /\ last.url = call[c].url
            /\ last.stored = "true" /\ last.attempts = 1
            /\ c <= last.ninv /\ ninv = last.ninv ) =>
              /\ last.fetches = 1 /\ call[c].fetches = 1
              /\ Cardinality({i \in 1..Len(getStoredImages(ls')) :
                                 getStoredImages(ls')[i].key = call[c].url}) = 1
              /\ getStoredImage(ls', call[c].url) = call[c].img
              /\ getStoredImage(ls', call[c].url).localDataUrl = last'.result
              /\ (readAsDataURL(call[c].blob) = last.result => last'.result = last.result)]_vars

C10_Witness == last.pair = "same" /\ last.overwrote /\ Has(Images, last.url)

\* The step in which clearAllImages runs among the downloads.
Cleared == nenv' = nenv + 1 /\ now' = now
\* A call that missed the cache and is through maintenance goes on to fetch.
MissFetches ==
    \A c \in Calls : (call[c].pc = "mdone" /\ call'[c] # call[c]) =>
        call'[c].pc = "fetching" /\ call'[c].fetches = 1

\* C13: after clearAllImages getStorageStats counts no image, and a call for a
\* URL that was cached before, made while the store is as clearAllImages left
\* it, misses the cache and goes on to a fetch.
C13_ClearAllTotal ==
    [][/\ Cleared => getStorageStats(ls').imageCount = 0 /\ ls' = NoItem
       /\ \A u \in inputs :
              (Invoked(u) /\ op.name = "clearAllImages" /\ u \in op.keys /\ ls = NoItem) =>
                  /\ call'[ninv'].pc = "mdone" /\ call'[ninv'].url = u
                  /\ call'[ninv'].fetches = 0
                  /\ last' = last
       /\ MissFetches]_vars

C13_Witness ==
    /\ op.name = "clearAllImages" /\ ls = NoItem
    /\ \E c \in Calls :
           /\ call[c].pc = "fetching" /\ call[c].fetches = 1
           /\ call[c].url \in op.keys /\ ~call[c].raced

\* C16: the map never holds two entries with one key, every entry sits under the
\* key equal to its originalUrl, and a successful storeImage adds one entry when
\* the URL had none and none when it had one.
C16_KeyInvariant ==
    [][/\ \A i \in 1..Len(getStoredImages(ls')) :
              /\ getStoredImages(ls')[i].key = getStoredImages(ls')[i].val.originalUrl
              /\ \A j \in 1..Len(getStoredImages(ls')) :
                     getStoredImages(ls')[i].key = getStoredImages(ls')[j].key => i = j
       /\ \A c \in Calls :
              (Settles(c) /\ call[c].pc \in StorePcs /\ last'.stored = "true") =>
                  Len(getStoredImages(ls')) =
                      Len(Images) + (IF Has(Images, call[c].url) THEN 0 ELSE 1)]_vars

C16_Witness ==
    /\ last.overwrote /\ Len(Images) = 1
    /\ Images[1].key = last.url /\ Images[1].val.localDataUrl = last.result

\* C17 as stated: after a call fail-opens on a network failure the store holds no
\* entry for its URL, and a later call for that URL misses the cache and goes on
\* to a fetch.
C17_Original ==
    [][/\ \A c \in Calls :
              (Settles(c) /\ last'.c = c /\ last'.how \in {"fetch", "blob"}) =>
                  ~Has(getStoredImages(ls'), call[c].url)
       /\ \A u \in inputs :
              (Invoked(u) /\ last.how \in {"fetch", "blob"} /\ last.url = u) =>
                  call'[ninv'].pc \in {"mdone", "m1"} /\ call'[ninv'].fetches = 0
       /\ MissFetches]_vars

\* C17 amended: a call that fail-opens on a network failure returns its URL and
\* leaves the store as it was, so the store holds no entry for the URL unless an
\* overlapping call stored one; while there is none, a later call for that URL
\* misses the cache and goes on to a fetch.
C17_Amended ==
    [][/\ \A c \in Calls :
              (Settles(c) /\ last'.c = c /\ last'.how \in {"fetch", "blob"}) =>
                  /\ ls' = ls
                  /\ last'.result = call[c].url
                  /\ ~call[c].raced => ~Has(getStoredImages(ls'), call[c].url)
       /\ \A u \in inputs :
              ( /\ Invoked(u) /\ last.how \in {"fetch", "blob"} /\ last.url = u
                /\ ~Has(Images, u) ) =>
                  call'[ninv'].pc \in {"mdone", "m1"} /\ call'[ninv'].fetches = 0
       /\ MissFetches]_vars

C17_Witness ==
    /\ last.how = "fetch" /\ last.result = last.url /\ ~Has(Images, last.url)
    /\ \E c \in Calls :
           /\ c > last.ninv /\ call[c].url = last.url
           /\ call[c].pc = "fetching" /\ call[c].fetches = 1

\* C29: when the body of the response has arrived and the size fields of the
\* stored entries plus the size of the payload exceed MAX_STORAGE_SIZE, the call
\* returns its URL, having attempted no write and no eviction: the stored value
\* stays as it was from the arrival of the body to the return.
C29_BudgetPreCheck ==
    [][\A c \in Calls :
          /\ (call[c].pc = "blob" /\ call'[c].pc = "sizecheck") =>
                 /\ call'[c].currentSize = SumSizes(Images)
                 /\ ls' = ls
          /\ call[c].pc = "sizecheck" => call[c].currentSize = SumSizes(Images)
          /\ ( /\ call[c].pc = "sizecheck" /\ call'[c] # call[c]
               /\ SumSizes(Images) + PayloadSize(call[c].blob.payload) > MAX_STORAGE_SIZE ) =>
                 /\ call'[c].pc = "done"
                 /\ last'.c = c /\ last'.how = "limit"
                 /\ last'.result = call[c].url
                 /\ last'.attempts = 0 /\ last'.stored = "none"
                 /\ ls' = ls]_vars

\* a second 30 MiB payload arrived when 30 MiB were stored
C29_Witness ==
    /\ last.how = "limit" /\ last.result = last.url /\ last.fetches = 1
    /\ SumSizes(Images) = 30 * MiB /\ ~Has(Images, last.url)

-----------------------------------------------------------------------------
(* Properties of the store operations *)

\* The entries of m whose keys are in K, in m's order.
Only(m, K) == SelectSeq(m, LAMBDA e : e.key \in K)
\* a is evicted before b whatever the insertion order: larger, or as large and older
Precedes(a, b) ==
    \/ a.val.size > b.val.size
    \/ /\ a.val.size = b.val.size
       /\ getTime(a.val.downloadedAt) < getTime(b.val.downloadedAt)

\* C11: when the actual usage is above 80% of MAX_STORAGE_SIZE, then after
\* performMaintenanceCleanup getStorageStats reports a usage of at most 80%, or no
\* image at all.
C11_EvictionReducesUsage ==
    [][(op'.name = "performMaintenanceCleanup" /\ OverThreshold(ls)) =>
          \/ getStorageStats(ls').storageUsagePercent <= 800
          \/ getStorageStats(ls').imageCount = 0]_vars

C11_Witness ==
    /\ op.name = "performMaintenanceCleanup" /\ op.arg = TRUE
    /\ Len(Images) > 0 /\ getStorageStats(ls).storageUsagePercent <= 800

\* C12: freeUpSpace(targetBytes) keeps the other entries as they were and removes
\* a set of entries that comes first in the order by size descending, then
\* downloadedAt ascending, that reaches targetBytes unless every entry is
\* removed, that falls short of targetBytes without its last entry, and that is
\* empty when targetBytes is not positive.
C12_EvictionOrder ==
    [][op'.name = "freeUpSpace" =>
          LET after == getStoredImages(ls')
              gone == Only(Images, Keys(Images) \ Keys(after))
              targetBytes == op'.arg
          IN  /\ after = Only(Images, Keys(after))
              /\ \A i \in 1..Len(gone) : \A j \in 1..Len(after) :
                     ~Precedes(after[j], gone[i])
              /\ SumSizes(gone) >= targetBytes \/ after = << >>
              /\ \A i \in 1..Len(gone) :
                     (\A j \in 1..Len(gone) : ~Precedes(gone[i], gone[j])) =>
                         SumSizes(gone) - gone[i].val.size < targetBytes
              /\ targetBytes <= 0 => gone = << >>]_vars

\* of a 5 MiB entry and two 3 MiB entries, the older first, a target of 5 MiB
\* removed the 5 MiB entry alone
C12_Witness ==
    /\ op.name = "freeUpSpace" /\ op.arg = 5 * MiB
    /\ op.result = [freedBytes |-> 5 * MiB, removed |-> 1]
    /\ Images = <<OpsEntry("http://b", 3 * MiB, DayMs), OpsEntry("https://c", 3 * MiB, 5 * DayMs)>>

\* C14: getStorageStats leaves the value stored under the key as it was, whatever
\* that value is.
C14_StatsReadOnly == [][op'.name = "getStorageStats" => ls' = ls]_vars

C14_Witness == op.name = "getStorageStats" /\ ls = GarbageItem

\* C15: getStorageStats right after clearAllImages returns imageCount 0,
\* oldestImage null, newestImage null and storageUsagePercent 0.
C15_StatsOnEmpty ==
    [][(op'.name = "getStorageStats" /\ op.name = "clearAllImages") =>
          /\ op'.result.imageCount = 0
          /\ op'.result.oldestImage = Null
          /\ op'.result.newestImage = Null
          /\ op'.result.storageUsagePercent = 0]_vars

C15_Witness ==
    /\ op.name = "getStorageStats" /\ op.after = "clearAllImages"
    /\ op.result.imageCount = 0 /\ op.result.actualStorageSize = 0

\* C18 as stated: on a value that does not parse, getStoredImages, getStoredImage
\* and getStorageStats answer as on an empty store, and a successful storeImage
\* leaves a map holding the new entry alone.
C18_Original ==
    [][ls.kind = "garbage" =>
          /\ getStoredImages(ls) = EmptyMap
          /\ op'.name = "getStoredImage" => op'.result = NoImage
          /\ op'.name = "getStorageStats" => op'.result = getStorageStats(NoItem)
          /\ op'.name = "storeImage" =>
                 ls' = JsonItem(<<[key |-> op'.arg.originalUrl, val |-> op'.arg]>>)]_vars

\* C18 amended: the same, except that getStorageStats reports the byte length of
\* the unreadable text as actualStorageSize, and the usage that goes with it,
\* next to imageCount 0, totalSize 0 and no oldest and newest image.
C18_Amended ==
    [][ls.kind = "garbage" =>
          /\ getStoredImages(ls) = EmptyMap
          /\ op'.name = "getStoredImage" => op'.result = NoImage
          /\ op'.name = "getStorageStats" =>
                 op'.result = [getStorageStats(NoItem) EXCEPT
                                  !.actualStorageSize = Len(GarbageText),
                                  !.actualStorageSizeMB = toMB(Len(GarbageText)),
                                  !.storageUsagePercent = toPercent(Len(GarbageText))]
          /\ op'.name = "storeImage" =>
                 ls' = JsonItem(<<[key |-> op'.arg.originalUrl, val |-> op'.arg]>>)]_vars

C18_Witness ==
    /\ op.name = "getStorageStats" /\ ls.kind = "garbage"
    /\ op.result.imageCount = 0 /\ op.result.actualStorageSize > 0

\* C26: for a target the total size can reach, freeUpSpace removes entries that
\* reach the target, no set of fewer stored entries has a total size of at least
\* the target, and of two entries of equal size it never removes the newer one
\* and keeps the older one.
C26_FewestSacrificed ==
    [][(op'.name = "freeUpSpace" /\ op'.arg <= SumSizes(Images)) =>
          LET after == getStoredImages(ls')
              gone == Only(Images, Keys(Images) \ Keys(after))
              targetBytes == op'.arg
          IN  /\ SumSizes(gone) >= targetBytes
              /\ \A K \in SUBSET Keys(Images) :
                     Cardinality(K) < Len(gone) => SumSizes(Only(Images, K)) < targetBytes
              /\ \A i \in 1..Len(gone) : \A j \in 1..Len(after) :
                     gone[i].val.size = after[j].val.size =>
                         getTime(gone[i].val.downloadedAt) <= getTime(after[j].val.downloadedAt)]_vars

\* of a 5 MiB entry and two 3 MiB entries a target of 6 MiB, which no single
\* entry reaches, took the 5 MiB entry and the older 3 MiB entry
C26_Witness ==
    /\ op.name = "freeUpSpace" /\ op.arg = 6 * MiB
    /\ op.result = [freedBytes |-> 8 * MiB, removed |-> 2]
    /\ Len(Images) = 1 /\ Images[1].val.size = 3 * MiB
    /\ Images[1].val.downloadedAt = toISOString(5 * DayMs)

-----------------------------------------------------------------------------
(* Termination *)

\* C28: a call that does not wait forever for its own fetch, body read or
\* FileReader eventually returns, whatever becomes of the other calls.
C28_Termination ==
    \A c \in Calls :
        ([]<>(call[c].pc \notin TaskPcs)) => (InFlight(c) ~> call[c].pc = "done")

\* a call has returned after a write, an eviction and a retry while a call
\* begun before it still waits for its fetch
C28_Witness ==
    \E c \in Calls : \E d \in 1..(c - 1) :
        /\ call[d].pc = "fetching"
        /\ call[c].pc = "done"
        /\ last.c = c /\ last.how = "stored" /\ last.attempts >= 2

-----------------------------------------------------------------------------
(* The store after a storeImage that failed, among the downloads *)

\* A step of storeImage in call c that is not a write that was taken.
FailedStoreStep(c) ==
    /\ call[c].pc \in StorePcs /\ call'[c] # call[c]
    /\ ~(call'[c].pc = "done" /\ last'.c = c /\ last'.stored = "true")

\* From the first failed write of storeImage to its return nothing but the
\* storeImage of call c touches the stored value, and each of its steps leaves
\* entries that were there before it, unchanged and in their order; the step
\* that reports failure removes and restores nothing.
FailedStoreFrame(c) ==
    /\ FailedStoreStep(c) =>
           getStoredImages(ls') = Only(Images, Keys(getStoredImages(ls')))
    /\ (call[c].pc \in {"store1", "store2", "store3"} /\ ls' # ls) => call'[c] # call[c]
    /\ (FailedStoreStep(c) /\ Settles(c)) =>
           /\ last'.stored = "false"
           /\ call[c].pc \in {"store0", "store3"}
           /\ ls' = ls

\* C30 as stated: when storeImage reports failure the map holds only entries
\* that were there before the call, each unchanged, and not the new entry;
\* evicted entries are not restored, and a first write that fails otherwise than
\* for lack of space removes nothing.
C30_Original ==
    [][\A c \in Calls :
          /\ FailedStoreFrame(c)
          /\ (FailedStoreStep(c) /\ Settles(c)) =>
                 \A i \in 1..Len(getStoredImages(ls')) :
                     getStoredImages(ls')[i].val # call[c].img]_vars

\* C30 amended: the same, except that the map holds an entry under the URL of
\* the new entry when a call for the same URL that overlapped this one stored
\* it before; without such a call it holds no entry under that URL.
C30_Amended ==
    [][\A c \in Calls :
          /\ FailedStoreFrame(c)
          /\ (FailedStoreStep(c) /\ Settles(c)) =>
                 /\ ~call[c].raced => ~Has(getStoredImages(ls'), call[c].url)
                 /\ Has(getStoredImages(ls'), call[c].url) =>
                        getStoredImage(ls', call[c].url) = getStoredImage(ls, call[c].url)]_vars

\* a first write failed and was not retried: the entry of another URL stayed
C30_Witness ==
    /\ last.how = "notstored" /\ last.stored = "false" /\ last.attempts = 1
    /\ Len(Images) = 1 /\ Images[1].key # last.url

-----------------------------------------------------------------------------
(* Properties of the generation records *)

\* The step in which updateGeneration runs.
Updates == nenv' = nenv + 1 /\ proc' = proc /\ op'.name = "updateGeneration"

\* The list after updateGeneration(id, updates) over the list old at time t:
\* the first record with that id is replaced by its merge with updates under a
\* fresh updated_at, the others stay.
Upserted(old, new, id, updates, t) ==
    LET index == CHOOSE i \in 1..Len(old) :
                     old[i].id = id /\ \A j \in 1..(i - 1) : old[j].id # id
    IN  /\ Len(new) = Len(old)
        /\ DOMAIN new[index] = DOMAIN old[index] \cup DOMAIN updates \cup {"updated_at"}
        /\ \A f \in DOMAIN new[index] :
               new[index][f] = IF f = "updated_at" THEN toISOString(t)
                               ELSE IF f \in DOMAIN updates THEN updates[f]
                               ELSE old[index][f]
        /\ \A j \in 1..Len(old) : j # index => new[j] = old[j]

\* C19: after processGeneration or the localization step of handleGenerate, every
\* image whose url was remote has the value downloadAndStoreImage returned for
\* it as url and its previous url as originalUrl, every other image is as it
\* was, and a record with a remote image was saved through updateGeneration.
C19_Localization ==
    [][(op' # op /\ op'.name \in {"processGeneration", "handleGenerate"}) =>
          LET generation == op'.generation
              out == op'.out
              returned == op'.returned
          IN  /\ Len(out.images) = Len(generation.images)
              /\ \A i \in 1..Len(generation.images) :
                     IF isRemoteUrl(generation.images[i].url)
                     THEN /\ i <= Len(returned) /\ returned[i] # ""
                          /\ out.images[i].url = returned[i]
                          /\ out.images[i].originalUrl = generation.images[i].url
                     ELSE out.images[i] = generation.images[i]
              /\ (\E i \in 1..Len(generation.images) : isRemoteUrl(generation.images[i].url))
                     => op'.via = "updateGeneration"]_vars

\* C20 as stated: updateGeneration(id, updates) on an id of the list replaces
\* the record of that id by its merge with updates under a fresh updated_at and
\* keeps the length, the order and the other records; on an id that is not in
\* the list it leaves the persisted item as it was.
C20_Original ==
    [][Updates =>
          IF \E i \in 1..Len(getGenerations(gens)) : getGenerations(gens)[i].id = op'.id
          THEN Upserted(getGenerations(gens), getGenerations(gens'), op'.id, op'.updates, now)
          ELSE gens' = gens]_vars

\* C20 amended: the same when the write of the list is taken; when setItem
\* throws, the error is swallowed and the persisted item stays as it was.
C20_Amended ==
    [][Updates =>
          IF /\ \E i \in 1..Len(getGenerations(gens)) : getGenerations(gens)[i].id = op'.id
             /\ op'.w = "ok"
          THEN Upserted(getGenerations(gens), getGenerations(gens'), op'.id, op'.updates, now)
          ELSE gens' = gens]_vars

C20_Witness ==
    /\ op.name = "updateGeneration" /\ op.w = "ok"
    /\ Len(getGenerations(gens)) = 2
    /\ getGenerations(gens)[1].id # op.id
    /\ getGenerations(gens)[1].updated_at = toISOString(0)
    /\ getGenerations(gens)[2].id = op.id
    /\ getGenerations(gens)[2].model_title = "new"
    /\ getGenerations(gens)[2].updated_at = toISOString(now)

-----------------------------------------------------------------------------
(* Properties of storeImage and cleanupOldImages run to their end *)

\* C21: a storeImage run whose first write fails for lack of space evicts the
\* entries older than 3 days and retries, then evicts by size and retries, then
\* evicts the entries older than 1 day and retries, then reports failure; each
\* eviction works on the store the one before left, an eviction runs only after
\* a failed write and none after a write that was taken, and the write is
\* attempted at most four times.
C21_LadderOrder ==
    [][(op'.name = "storeImage" /\ op'.arg.ws[1] = "quota") =>
          LET steps == op'.result.steps
              attempts == op'.result.attempts
              imageData == op'.arg.imageData
              ws == op'.arg.ws
              final == IF steps = << >> THEN ls ELSE steps[Len(steps)].after
          IN  /\ attempts \in 2..4
              /\ \A n \in 1..(attempts - 1) : ws[n] # "ok"
              /\ op'.result.stored = (ws[attempts] = "ok")
              /\ ~op'.result.stored => attempts = 4
              /\ Len(steps) = attempts - 1
              /\ steps[1].before = ls
              /\ steps[1].after = cleanupOldImages(ls, 3 * DayMs, now, "ok")
              /\ Len(steps) >= 2 =>
                     /\ steps[2].before = steps[1].after
                     /\ steps[2].after =
                            freeUpSpace(steps[2].before, targetFreeSpace(imageData), "ok")
              /\ Len(steps) >= 3 =>
                     /\ steps[3].before = steps[2].after
                     /\ steps[3].after = cleanupOldImages(steps[3].before, DayMs, now, "ok")
              /\ ls' = IF op'.result.stored
                       THEN JsonItem(Put(getStoredImages(final), imageData.originalUrl,
                                         imageData))
                       ELSE final]_vars

\* every step of the ladder removed an entry, and the fourth write was taken
C21_Witness ==
    /\ op.name = "storeImage" /\ op.result.stored /\ op.result.attempts = 4
    /\ \A k \in 1..3 :
           Len(getStoredImages(op.result.steps[k].after))
               < Len(getStoredImages(op.result.steps[k].before))
    /\ Images = <<[key |-> op.arg.imageData.originalUrl, val |-> op.arg.imageData]>>
    /\ op.arg.imageData.size = 3 * MiB

\* usage > 80% of MAX_STORAGE_SIZE, in bytes of the serialized map
Above80(bytes) == bytes * 10 > MAX_STORAGE_SIZE * 8

\* C23: performMaintenanceCleanup leaves the stored value as it was whenever the
\* byte length of the stored text is at most 80% of MAX_STORAGE_SIZE.
C23_ThresholdFrame ==
    [][(op'.name = "performMaintenanceCleanup" /\ ~Above80(op'.arg)) =>
          /\ op'.arg = (CASE ls.kind = "none" -> 0
                          [] ls.kind = "json" -> JsonLen(ls.map)
                          [] OTHER -> Len(GarbageText))
          /\ op'.result = << >>
          /\ ls' = ls]_vars

\* three entries of 5 MiB, one of them 8 days old, are left alone
C23_Witness ==
    /\ op.name = "performMaintenanceCleanup" /\ op.result = << >>
    /\ Len(Images) = 3 /\ SumSizes(Images) = 15 * MiB
    /\ \E i \in 1..3 : now - getTime(Images[i].val.downloadedAt) > 7 * DayMs
    /\ op.arg = JsonLen(Images) /\ op.arg > 15 * MiB

\* C24: above 80%, performMaintenanceCleanup first evicts the entries older than
\* 7 days; it evicts the entries older than 3 days only if the usage measured
\* after that is still above 80%, and calls freeUpSpace only if the usage
\* measured after that is still above 80%.
C24_EscalationOrder ==
    [][(op'.name = "performMaintenanceCleanup" /\ Above80(op'.arg)) =>
          LET steps == op'.result
              Aged(m, maxAge) ==
                  SelectSeq(m, LAMBDA e : now - getTime(e.val.downloadedAt) <= maxAge)
              s1 == Aged(Images, 7 * DayMs)
              s2 == Aged(Images, 3 * DayMs)
          IN  /\ Len(steps) >= 1
              /\ steps[1].name = "cleanupOldImages" /\ steps[1].arg = 7 * DayMs
              /\ steps[1].before = ls
              /\ getStoredImages(steps[1].after) = s1
              /\ IF ~Above80(JsonLen(s1))
                 THEN Len(steps) = 1
                 ELSE /\ Len(steps) >= 2
                      /\ steps[2].name = "cleanupOldImages" /\ steps[2].arg = 3 * DayMs
                      /\ steps[2].before = steps[1].after
                      /\ getStoredImages(steps[2].after) = s2
                      /\ IF ~Above80(JsonLen(s2))
                         THEN Len(steps) = 2
                         ELSE /\ Len(steps) = 3
                              /\ steps[3].name = "freeUpSpace"
                              /\ steps[3].before = steps[2].after
              /\ ls' = steps[Len(steps)].after]_vars

\* the first step brought the usage under 80%, and two entries that are 4 days
\* old stayed
C24_Witness ==
    /\ op.name = "performMaintenanceCleanup" /\ Len(op.result) = 1
    /\ Len(getStoredImages(op.result[1].after)) < Len(getStoredImages(op.result[1].before))
    /\ Len(Images) = 2
    /\ \A i \in 1..2 : now - getTime(Images[i].val.downloadedAt) = 4 * DayMs

\* C25: when performMaintenanceCleanup reaches freeUpSpace it asks for the usage
\* it measured minus 60% of MAX_STORAGE_SIZE, and afterwards the usage is at most
\* 60% of MAX_STORAGE_SIZE or the map is empty.
C25_SixtyPercentTarget ==
    [][(op'.name = "performMaintenanceCleanup" /\ Len(op'.result) = 3) =>
          LET step == op'.result[3]
              finalSize == JsonLen(getStoredImages(step.before))
          IN  /\ step.name = "freeUpSpace"
              /\ step.before.kind = "json"
              /\ step.arg * 10 = finalSize * 10 - MAX_STORAGE_SIZE * 6
              /\ step.after = freeUpSpace(step.before, step.arg, "ok")
              /\ ls' = step.after
              /\ \/ JsonLen(getStoredImages(ls')) * 10 <= MAX_STORAGE_SIZE * 6
                 \/ getStoredImages(ls') = << >>]_vars

\* of a 30 MiB entry and two 5 MiB entries, none older than 3 days, the 30 MiB
\* entry went and the usage is under 60%
C25_Witness ==
    /\ op.name = "performMaintenanceCleanup" /\ Len(op.result) = 3
    /\ Len(getStoredImages(op.result[3].before)) = 3
    /\ op.result[1].after = op.result[1].before
    /\ op.result[2].after = op.result[2].before
    /\ Len(Images) = 2 /\ SumSizes(Images) = 10 * MiB
    /\ JsonLen(Images) * 10 <= MAX_STORAGE_SIZE * 6

\* C27: cleanupOldImages(maxAge) removes exactly the entries with
\* now - downloadedAt > maxAge, keeps the others as they were and in their
\* order, and leaves the stored value as it was when it removed no entry.
C27_AgeEvictionExact ==
    [][op'.name = "cleanupOldImages" =>
          LET maxAge == op'.arg
              after == getStoredImages(ls')
              Old(e) == now - getTime(e.val.downloadedAt) > maxAge
          IN  /\ after = SelectSeq(Images, LAMBDA e : ~Old(e))
              /\ (\A i \in 1..Len(Images) : ~Old(Images[i])) => ls' = ls
              /\ (\E i \in 1..Len(Images) : Old(Images[i])) => ls' = JsonItem(after)]_vars

\* with maxAge of one day, two older entries went and the entry that is exactly
\* one day old stayed
C27_Witness ==
    /\ op.name = "cleanupOldImages" /\ op.arg = DayMs /\ op.result = 2
    /\ Len(Images) = 1
    /\ now - getTime(Images[1].val.downloadedAt) = DayMs

\* C22: the second eviction of the ladder is freeUpSpace called with the larger
\* of twice the size of the new entry and 10 MiB; it leaves the other entries as
\* they were, and the sizes of the entries it removed sum to at least that
\* target or the map is left empty.
C22_LadderTarget ==
    [][(op'.name = "storeImage" /\ Len(op'.result.steps) >= 2) =>
          LET step == op'.result.steps[2]
              size == op'.arg.imageData.size
              before == getStoredImages(step.before)
              after == getStoredImages(step.after)
          IN  /\ step.name = "freeUpSpace"
              /\ step.arg >= 2 * size /\ step.arg >= 10 * MiB
              /\ step.arg = 2 * size \/ step.arg = 10 * MiB
              /\ step.after = freeUpSpace(step.before, step.arg, "ok")
              /\ after = Only(before, Keys(after))
              /\ SumSizes(before) - SumSizes(after) >= step.arg \/ after = << >>]_vars

\* for a new entry of 3 MiB the target is 10 MiB: of three entries of 5 MiB the
\* two older ones went and the newest stayed
C22_Witness ==
    /\ op.name = "storeImage" /\ Len(op.result.steps) >= 2
    /\ op.arg.imageData.size = 3 * MiB
    /\ op.result.steps[2].arg = 10 * MiB
    /\ Len(getStoredImages(op.result.steps[2].before)) = 3
    /\ Len(getStoredImages(op.result.steps[2].after)) = 1
    /\ getStoredImages(op.result.steps[2].after)[1].val.downloadedAt = toISOString(5 * DayMs)

====
